---- MODULE Spec2Model ----
(***************************************************************************)
(* ts_atbuilding_csc: the mock vent controller (MockVentController) and    *)
(* the CSC's TCP client (ATBuildingCsc).                                    *)
(*                                                                         *)
(* Spec          the mock controller: dispatcher, gate transitions,        *)
(*               monitor_status loops, connect/disconnect/close.           *)
(* DispatchSpec  the dispatcher alone on the full range of command lines.  *)
(* FanSpec       the fan commands and the telemetry of monitor_status.     *)
(* WatchSpec     the watched values, the events and the telemetry cadence. *)
(* FrameSpec     every command and monitor_status in one client session.   *)
(* PeerSpec      the CSC client against a controller on the network.       *)
(* RouteSpec     ... that publishes events and telemetry.                  *)
(* CscSpec       the CSC client: connect, disconnect, run_command and      *)
(*               listen_for_messages against a controller on the wire.     *)
(***************************************************************************)
EXTENDS Integers, Sequences, FiniteSets, TLC

VARIABLES
    \* ---- MockVentController ----
    fan_frequency,                   \* self.fan_frequency (canonical float text)
    vent_states,                     \* self.vent_states, index 0..3
    manual_control_mode,             \* self.manual_control_mode
    fault_codes,                     \* self.fault_codes (most recent first)
    fan_drive_state,                 \* self.fan_drive_state
    extraction_fan_drive_was_reset,  \* self.extraction_fan_drive_was_reset
    telemetry_count,                 \* self.telemetry_count
    transitions,                     \* pending _set_vent_state tasks, oldest first
    connected,                       \* the server has a client
    closed,                          \* MockVentController.close() has run
    monitors,                        \* locals of each live monitor_status loop
    sent,                            \* the lines written by the last step
    last,                            \* the command line the last step dispatched, and the handlers it invoked
    had_error,                       \* an error response has been written before
    later,                           \* per gate: target of a command issued over a pending transition
    track,                           \* the gate command being followed on a quiet controller
    ventEvt,                         \* data of the last evt_vent_gate_state since that command
    fanCmd,                          \* argument of the last answered set_extraction_fan_drive_freq
    published,                       \* per monitor_status loop: data of the last event of each kind it wrote
    sinceTel,                        \* passes of monitor_status since the last telemetry line of this connection
    conn,                            \* the newest connection: its first command number, first line written, first line read
    \* ---- ATBuildingCsc ----
    client,                          \* self.client: None, connected or closed
    mock_ctrl,                       \* self.mock_ctrl: None or the running mock controller
    hasattr_evt,                     \* hasattr(self, "evt_maximumDriveFrequency")
    listeners,                       \* position of each live listen_for_messages task
    response_queue,                  \* self.response_queue: command name -> queued responses
    calls,                           \* the run_command calls: 0 is connect's probe
    toServer,                        \* command lines written by the client, not yet read
    toClient,                        \* lines written by the controller, not yet read
    nextId,                          \* number of the next command line written
    connect_state,                   \* the newest connect() attempt: none, probing, done or fault(where)
    api,                             \* the newest connect()/disconnect() call: what it found and raised
    logged                           \* listen_for_messages has logged an exception on this connection

ctrlVars == <<fan_frequency, vent_states, manual_control_mode, fault_codes,
              fan_drive_state, extraction_fan_drive_was_reset, telemetry_count,
              transitions, connected, closed, monitors, sent>>

obsVars == <<last, had_error, later, track, ventEvt>>

cscVars == <<client, mock_ctrl, hasattr_evt, listeners, response_queue, calls,
             toServer, toClient, nextId, connect_state, api, logged>>

fanVars == <<fanCmd>>

watchVars == <<published, sinceTel>>

connVars == <<conn>>

vars == <<ctrlVars, obsVars, cscVars, fanVars, watchVars, connVars>>

\* The device state of the mock controller.
device == <<fan_frequency, vent_states, manual_control_mode, fault_codes,
            fan_drive_state, extraction_fan_drive_was_reset>>

----------------------------------------------------------------------------
\* Program constants and bounds

NumGates == 4
TELEMETRY_INTERVAL == 10
InitialFaultCode == 22
FaultHistoryLen == 8
\* the most _set_vent_state tasks pending at once, once a busy controller takes more
MaxPending == 2
\* the most monitor_status loops alive at once
MaxLoops == 2
\* the most listen_for_messages tasks alive at once
MaxReaders == 2
\* the most run_command calls the CSC's commands have in progress at once
MaxCallers == 1
\* the most command lines a run writes
MaxSends == 2
\* the most lines in flight from the controller to the client
MaxWire == 4
\* the most lines in flight that a controller on the network wrote unasked,
\* and the most events left in a response queue
MaxUnasked == 1

Gates == 0..(NumGates - 1)
CLOSED == "CLOSED"
OPENED == "OPENED"
STOPPED == "STOPPED"
OPERATING == "OPERATING"
None == "None"
\* None where a gate array is expected, and where a fault code is expected
NoneArray == [g \in Gates |-> None]
NoneCode == -1

----------------------------------------------------------------------------
\* The command signature table

dispatch_dict ==
    [close_vent_gate |-> <<"int", "int", "int", "int">>,
     open_vent_gate |-> <<"int", "int", "int", "int">>,
     reset_extraction_fan_drive |-> <<>>,
     set_extraction_fan_drive_freq |-> <<"float">>,
     set_extraction_fan_manual_control_mode |-> <<"bool">>,
     start_extraction_fan |-> <<>>,
     stop_extraction_fan |-> <<>>,
     ping |-> <<>>]

\* Decimal integer literals among the tokens used, and their values: int(arg).
IntValue ==
    [s \in {"-2", "-1", "0", "1", "2", "3", "4"} |->
        CASE s = "-2" -> -2 [] s = "-1" -> -1 [] s = "0" -> 0 [] s = "1" -> 1
          [] s = "2" -> 2 [] s = "3" -> 3 [] s = "4" -> 4]

\* float(arg), as the canonical text of the float.
FloatValue ==
    [s \in {"-2", "-1", "0", "1", "2", "3", "4", "12.5", "50.0", "0.0"} |->
        CASE s = "-2" -> "-2.0" [] s = "-1" -> "-1.0" [] s = "0" -> "0.0"
          [] s = "1" -> "1.0" [] s = "2" -> "2.0" [] s = "3" -> "3.0"
          [] s = "4" -> "4.0" [] s = "12.5" -> "12.5" [] s = "50.0" -> "50.0"
          [] s = "0.0" -> "0.0"]

\* The boolean words the conversion accepts.
BoolValue ==
    [s \in {"True", "False"} |-> (s = "True")]

\* cast_string_to_type(t, arg): the converted value, or the exception raised.
cast_string_to_type(t, arg) ==
    CASE t = "int" ->
            IF arg \in DOMAIN IntValue
            THEN [exc |-> "", value |-> IntValue[arg]]
            ELSE [exc |-> "ValueError", value |-> None]
      [] t = "float" ->
            IF arg \in DOMAIN FloatValue
            THEN [exc |-> "", value |-> FloatValue[arg]]
            ELSE [exc |-> "ValueError", value |-> None]
      [] t = "bool" ->
            IF arg \in DOMAIN BoolValue
            THEN [exc |-> "", value |-> BoolValue[arg]]
            ELSE [exc |-> "ValueError", value |-> None]

\* args = [cast_string_to_type(t, arg) for t, arg in zip(types, args)]
ConvertArgs(types, args) ==
    LET n == IF Len(types) <= Len(args) THEN Len(types) ELSE Len(args)
        conv == [i \in 1..n |-> cast_string_to_type(types[i], args[i])]
        bad == {i \in 1..n : conv[i].exc # ""}
    IN IF bad = {}
       THEN [exc |-> "", values |-> [i \in 1..n |-> conv[i].value]]
       ELSE [exc |-> conv[CHOOSE i \in bad : \A j \in bad : i <= j].exc,
             values |-> <<>>]

----------------------------------------------------------------------------
\* Command handlers.  Each yields the exception raised ("" for a normal
\* return), the new device fields and the transition tasks it created.

Outcome(exc, freq, manual, reset, tasks) ==
    [exc |-> exc, fan_frequency |-> freq, manual_control_mode |-> manual,
     extraction_fan_drive_was_reset |-> reset, tasks |-> tasks]

NoEffect(exc, tasks) ==
    Outcome(exc, fan_frequency, manual_control_mode,
            extraction_fan_drive_was_reset, tasks)

\* The loop over (gate1, gate2, gate3, gate4) shared by close_vent_gate and
\* open_vent_gate; tasks already created stay scheduled when a later gate raises.
RECURSIVE GateLoop(_, _, _, _)
GateLoop(gates, i, state, tasks) ==
    IF i > Len(gates) THEN NoEffect("", tasks)
    ELSE LET gate == gates[i] IN
         IF gate = -1 THEN GateLoop(gates, i + 1, state, tasks)
         ELSE IF (~(gate >= 0)) /\ gate <= 3 THEN NoEffect("ValueError", tasks)
         ELSE IF gate \notin Gates THEN NoEffect("IndexError", tasks)
         ELSE IF vent_states[gate] # state
              THEN GateLoop(gates, i + 1, state,
                            Append(tasks, [gate |-> gate, state |-> state]))
              ELSE GateLoop(gates, i + 1, state, tasks)

close_vent_gate(gates) == GateLoop(gates, 1, CLOSED, <<>>)

open_vent_gate(gates) == GateLoop(gates, 1, OPENED, <<>>)

reset_extraction_fan_drive_StopsFan ==
    Outcome("", "0.0", manual_control_mode, TRUE, <<>>)

reset_extraction_fan_drive ==
    Outcome("", fan_frequency, manual_control_mode, TRUE, <<>>)

set_extraction_fan_drive_freq_Ignored(target_frequency) == NoEffect("", <<>>)

set_extraction_fan_drive_freq(target_frequency) ==
    Outcome("", target_frequency, manual_control_mode,
            extraction_fan_drive_was_reset, <<>>)

set_extraction_fan_manual_control_mode(enable_manual_control_mode) ==
    Outcome("", fan_frequency, enable_manual_control_mode,
            extraction_fan_drive_was_reset, <<>>)

start_extraction_fan ==
    Outcome("", "50.0", manual_control_mode, extraction_fan_drive_was_reset, <<>>)

stop_extraction_fan ==
    Outcome("", "0.0", manual_control_mode, extraction_fan_drive_was_reset, <<>>)

ping == NoEffect("", <<>>)

\* await getattr(self, command)(*args)
CallHandler(command, args) ==
    CASE command = "close_vent_gate" -> close_vent_gate(args)
      [] command = "open_vent_gate" -> open_vent_gate(args)
      [] command = "reset_extraction_fan_drive" -> reset_extraction_fan_drive
      [] command = "set_extraction_fan_drive_freq" ->
            set_extraction_fan_drive_freq(args[1])
      [] command = "set_extraction_fan_manual_control_mode" ->
            set_extraction_fan_manual_control_mode(args[1])
      [] command = "start_extraction_fan" -> start_extraction_fan
      [] command = "stop_extraction_fan" -> stop_extraction_fan
      [] command = "ping" -> ping

\* One line of the wire protocol, as json.dumps(dict(...)) builds it.
Message(command, error, exception_name, message, data) ==
    [command |-> command, error |-> error, exception_name |-> exception_name,
     message |-> message, data |-> data]

\* if command not in self.dispatch_dict
KnownCommand(command) == command \in DOMAIN dispatch_dict

NoSuchCommand_KeyError(command) ==
    Message(command, 1, "KeyError", "No such command", None)

\* The response to a command that is not in dispatch_dict.
NoSuchCommand(command) ==
    Message(command, 1, "NotImplementedError", "No such command", None)

ArityMismatch_TooFewOnly(types, args) == Len(args) < Len(types)

ArityMismatch_NotMore(types, args) == Len(args) <= Len(types)

\* if len(args) != len(types)
ArityMismatch(types, args) == Len(args) # Len(types)

\* The response to a command with the wrong number of arguments.
ArityError(command) ==
    Message(command, 1, "TypeError", "Error while handling command", None)

Success_Silent(command) == <<>>

\* The success response, written after the handler returned.
Success(command) == <<Message(command, 0, "", "", None)>>

Failure_Generic(command, exc) == <<Message(command, 1, "Exception", exc, None)>>

\* The response written by the except clause: type(e).__name__.
Failure(command, exc) == <<Message(command, 1, exc, exc, None)>>

\* What read_and_dispatch does with a non-blank line: the handlers invoked,
\* the handler's outcome and the responses written.
Dispatch(data) ==
    LET command == data[1]
        args == Tail(data)
    IN IF ~KnownCommand(command)
       THEN [invoked |-> <<>>, outcome |-> NoEffect("", <<>>),
             responses |-> <<NoSuchCommand(command)>>]
       ELSE LET types == dispatch_dict[command] IN
            IF ArityMismatch(types, args)
            THEN [invoked |-> <<>>, outcome |-> NoEffect("", <<>>),
                  responses |-> <<ArityError(command)>>]
            ELSE LET conv == ConvertArgs(types, args) IN
                 IF conv.exc # ""
                 THEN [invoked |-> <<>>, outcome |-> NoEffect(conv.exc, <<>>),
                       responses |-> Failure(command, conv.exc)]
                 ELSE LET out == CallHandler(command, conv.values) IN
                      [invoked |-> <<command>>, outcome |-> out,
                       responses |-> IF out.exc = "" THEN Success(command)
                                     ELSE Failure(command, out.exc)]

----------------------------------------------------------------------------
\* MockVentController: state after __init__

CtrlInit ==
    /\ fan_frequency = "0.0"
    /\ vent_states = [g \in Gates |-> CLOSED]
    /\ manual_control_mode = TRUE
    /\ fault_codes = [i \in 1..FaultHistoryLen |-> InitialFaultCode]
    /\ fan_drive_state = STOPPED
    /\ extraction_fan_drive_was_reset = FALSE
    /\ telemetry_count = 0
    /\ transitions = <<>>
    /\ connected = FALSE
    /\ closed = FALSE
    /\ monitors = <<>>
    /\ sent = <<>>

\* A client connects: on_connect starts a monitor_status task.
on_connect ==
    /\ ~closed
    /\ ~connected
    /\ Len(monitors) < MaxLoops
    /\ connected' = TRUE
    /\ monitors' = Append(monitors, [vent_state |-> NoneArray, last_fault |-> NoneCode,
                                     fan_drive_state |-> None])
    /\ sent' = <<>>
    /\ UNCHANGED <<device, telemetry_count, transitions, closed>>

\* The client goes away.
ClientDisconnect ==
    /\ connected
    /\ connected' = FALSE
    /\ sent' = <<>>
    /\ UNCHANGED <<device, telemetry_count, transitions, closed, monitors>>

read_and_dispatch_Awaits(data) ==
    /\ connected
    /\ IF data = <<>>
       THEN /\ sent' = <<>>
            /\ UNCHANGED <<device, transitions>>
       ELSE LET d == Dispatch(data)
                out == d.outcome
                moved == {out.tasks[k].gate : k \in 1..Len(out.tasks)}
            IN /\ fan_frequency' = out.fan_frequency
               /\ manual_control_mode' = out.manual_control_mode
               /\ extraction_fan_drive_was_reset' = out.extraction_fan_drive_was_reset
               /\ vent_states' = [g \in Gates |->
                                    IF g \in moved
                                    THEN (CHOOSE t \in {out.tasks[k] : k \in 1..Len(out.tasks)} :
                                             t.gate = g).state
                                    ELSE vent_states[g]]
               /\ sent' = d.responses
               /\ UNCHANGED <<transitions, fault_codes, fan_drive_state>>
    /\ UNCHANGED <<telemetry_count, connected, closed, monitors>>

\* read_and_dispatch on the line `data` (a sequence of tokens; <<>> is a blank line).
read_and_dispatch(data) ==
    /\ connected
    /\ IF data = <<>>
       THEN /\ sent' = <<>>
            /\ UNCHANGED <<device, transitions>>
       ELSE LET d == Dispatch(data)
                out == d.outcome
            IN /\ \/ transitions = <<>>
                  \/ Len(transitions) + Len(out.tasks) <= MaxPending
               /\ fan_frequency' = out.fan_frequency
               /\ manual_control_mode' = out.manual_control_mode
               /\ extraction_fan_drive_was_reset' = out.extraction_fan_drive_was_reset
               /\ transitions' = transitions \o out.tasks
               /\ sent' = d.responses
               /\ UNCHANGED <<vent_states, fault_codes, fan_drive_state>>
    /\ UNCHANGED <<telemetry_count, connected, closed, monitors>>

_set_vent_state_Lost ==
    /\ transitions # <<>>
    /\ transitions' = Tail(transitions)
    /\ sent' = <<>>
    /\ UNCHANGED <<device, telemetry_count, connected, closed, monitors>>

\* _set_vent_state: the oldest pending task wakes from its sleep (all sleep
\* the same 1.0 s, so they wake in the order they were created).
_set_vent_state ==
    /\ transitions # <<>>
    /\ vent_states' = [vent_states EXCEPT ![Head(transitions).gate] = Head(transitions).state]
    /\ transitions' = Tail(transitions)
    /\ sent' = <<>>
    /\ UNCHANGED <<fan_frequency, manual_control_mode, fault_codes, fan_drive_state,
                   extraction_fan_drive_was_reset, telemetry_count, connected,
                   closed, monitors>>

MonitorMessages_ChangesOnly(m) ==
    (IF m.vent_state # vent_states /\ m.vent_state # NoneArray
     THEN <<Message("evt_vent_gate_state", 0, "", "", vent_states)>> ELSE <<>>)
    \o (IF m.fan_drive_state # fan_drive_state /\ m.fan_drive_state # None
        THEN <<Message("evt_extraction_fan_drive_state", 0, "", "", fan_drive_state)>>
        ELSE <<>>)
    \o (IF m.last_fault # fault_codes[1] /\ m.last_fault # NoneCode
        THEN <<Message("evt_extraction_fan_drive_fault_code", 0, "", "", fault_codes[1])>>
        ELSE <<>>)
    \o (IF telemetry_count - 1 < 0
        THEN <<Message("telemetry", 0, "", "", [tel_extraction_fan |-> fan_frequency])>>
        ELSE <<>>)

\* The event and telemetry lines one pass of the monitor_status loop writes.
MonitorMessages(m) ==
    (IF m.vent_state # vent_states
     THEN <<Message("evt_vent_gate_state", 0, "", "", vent_states)>> ELSE <<>>)
    \o (IF m.fan_drive_state # fan_drive_state
        THEN <<Message("evt_extraction_fan_drive_state", 0, "", "", fan_drive_state)>>
        ELSE <<>>)
    \o (IF m.last_fault # fault_codes[1]
        THEN <<Message("evt_extraction_fan_drive_fault_code", 0, "", "", fault_codes[1])>>
        ELSE <<>>)
    \o (IF telemetry_count - 1 < 0
        THEN <<Message("telemetry", 0, "", "", [tel_extraction_fan |-> fan_frequency])>>
        ELSE <<>>)

monitor_status_KeepsSnapshot(i) ==
    /\ i \in 1..Len(monitors)
    /\ IF ~connected
       THEN /\ monitors' = [j \in 1..(Len(monitors) - 1) |->
                               IF j < i THEN monitors[j] ELSE monitors[j + 1]]
            /\ sent' = <<>>
            /\ UNCHANGED telemetry_count
       ELSE /\ sent' = MonitorMessages(monitors[i])
            /\ monitors' = [monitors EXCEPT ![i] =
                               [vent_state |-> vent_states,
                                last_fault |-> @.last_fault,
                                fan_drive_state |-> fan_drive_state]]
            /\ telemetry_count' = IF telemetry_count - 1 < 0 THEN TELEMETRY_INTERVAL
                                  ELSE telemetry_count - 1
    /\ UNCHANGED <<device, transitions, connected, closed>>

\* One pass of loop i of monitor_status: it ends when no client is connected.
monitor_status(i) ==
    /\ i \in 1..Len(monitors)
    /\ IF ~connected
       THEN /\ monitors' = [j \in 1..(Len(monitors) - 1) |->
                               IF j < i THEN monitors[j] ELSE monitors[j + 1]]
            /\ sent' = <<>>
            /\ UNCHANGED telemetry_count
       ELSE /\ sent' = MonitorMessages(monitors[i])
            /\ monitors' = [monitors EXCEPT ![i] =
                               [vent_state |-> vent_states,
                                last_fault |-> fault_codes[1],
                                fan_drive_state |-> fan_drive_state]]
            /\ telemetry_count' = IF telemetry_count - 1 < 0 THEN TELEMETRY_INTERVAL
                                  ELSE telemetry_count - 1
    /\ UNCHANGED <<device, transitions, connected, closed>>

\* MockVentController.close(): cancels the task vent_gate_state_task refers
\* to (the newest one, if it is still pending) and closes the server.
close ==
    /\ ~closed
    /\ closed' = TRUE
    /\ connected' = FALSE
    /\ transitions' = IF transitions = <<>> THEN <<>>
                      ELSE SubSeq(transitions, 1, Len(transitions) - 1)
    /\ sent' = <<>>
    /\ UNCHANGED <<device, telemetry_count, monitors>>

----------------------------------------------------------------------------
\* Observers: history variables the properties read.  They constrain no
\* program variable.

NoDispatch == [line |-> <<>>, invoked |-> <<>>]

NoTrack == [line |-> <<>>, from |-> NoneArray, to |-> NoneArray]

\* The gate array once every task of `tasks` has settled.
RECURSIVE Settled(_, _)
Settled(states, tasks) ==
    IF tasks = <<>> THEN states
    ELSE Settled([states EXCEPT ![Head(tasks).gate] = Head(tasks).state], Tail(tasks))

\* Every live monitor_status loop has published the current gate array.
Quiet == \A i \in 1..Len(monitors) : monitors[i].vent_state = vent_states

IsGateCommand(command) == command \in {"open_vent_gate", "close_vent_gate"}

GateTarget(command) == IF command = "open_vent_gate" THEN OPENED ELSE CLOSED

\* The gates a converted argument list addresses.
Addressed(values) == {values[i] : i \in 1..Len(values)} \cap Gates

\* No connection has been made.
NoConn == [firstId |-> 0, wrote |-> "", read |-> ""]

ObsInit ==
    /\ last = NoDispatch
    /\ had_error = FALSE
    /\ later = [g \in Gates |-> None]
    /\ track = NoTrack
    /\ ventEvt = NoneArray
    /\ fanCmd = None
    /\ published = <<>>
    /\ sinceTel = -1
    /\ conn = NoConn

\* last, had_error: the line just dispatched and whether an error was ever answered.
ObserveDispatch(data) ==
    IF data = <<>>
    THEN last' = NoDispatch /\ UNCHANGED had_error
    ELSE /\ last' = [line |-> data, invoked |-> Dispatch(data).invoked]
         /\ had_error' = (had_error \/ \E k \in 1..Len(sent') : sent'[k].error # 0)

\* later[g]: the target of the newest successful gate command that addressed
\* gate g while a transition of g was pending (None when there was none pending).
ObserveLater(data) ==
    IF data # <<>> /\ IsGateCommand(data[1]) /\ Dispatch(data).invoked # <<>>
       /\ Dispatch(data).outcome.exc = ""
    THEN LET values == ConvertArgs(dispatch_dict[data[1]], Tail(data)).values
         IN later' = [g \in Gates |->
                        IF g \in Addressed(values)
                        THEN IF \E i \in 1..Len(transitions) : transitions[i].gate = g
                             THEN GateTarget(data[1]) ELSE None
                        ELSE later[g]]
    ELSE UNCHANGED later

\* track: a successful gate command that created transitions on an idle
\* controller whose monitor loops had published the current gate array;
\* dropped when another command creates transitions before it is published.
ObserveTrack(data) ==
    IF data = <<>> \/ Dispatch(data).outcome.tasks = <<>>
    THEN UNCHANGED <<track, ventEvt>>
    ELSE /\ ventEvt' = NoneArray
         /\ track' = IF transitions = <<>> /\ Quiet /\ Dispatch(data).outcome.exc = ""
                        /\ (track = NoTrack \/ ventEvt = track.to)
                     THEN [line |-> data, from |-> vent_states,
                           to |-> Settled(vent_states, Dispatch(data).outcome.tasks)]
                     ELSE NoTrack

\* ventEvt: the data of the newest evt_vent_gate_state written since `track` began.
ObserveMonitor ==
    LET evts == {k \in 1..Len(sent') : sent'[k].command = "evt_vent_gate_state"}
    IN ventEvt' = IF evts = {} THEN ventEvt
                  ELSE sent'[CHOOSE k \in evts : \A j \in evts : j <= k].data

----------------------------------------------------------------------------
\* The gate command lines a client sends to the controller under Spec.
GateLines ==
    {<<c>> \o a : c \in {"open_vent_gate", "close_vent_gate"},
                  a \in {<<"0", "-1", "-1", "-1">>, <<"0", "1", "2", "3">>}}

\* The command lines a client sends to the dispatcher under DispatchSpec:
\* blank, unknown, wrong arity, unconvertible, failing in the handler, valid.
DispatchLines ==
    {<<>>, <<"ping">>, <<"ping", "1">>, <<"get_fan_drive_max_frequency">>,
     <<"start_extraction_fan">>, <<"stop_extraction_fan">>,
     <<"reset_extraction_fan_drive">>,
     <<"set_extraction_fan_drive_freq", "12.5">>,
     <<"set_extraction_fan_drive_freq", "x">>,
     <<"set_extraction_fan_drive_freq">>,
     <<"set_extraction_fan_manual_control_mode", "False">>,
     <<"set_extraction_fan_manual_control_mode", "True">>,
     <<"open_vent_gate", "0", "-1", "-1", "-1">>,
     <<"close_vent_gate", "0", "-1", "-1", "-1">>,
     <<"open_vent_gate", "-1", "-1", "-1", "-1">>,
     <<"open_vent_gate", "4", "-1", "-1", "-1">>,
     <<"open_vent_gate", "0", "4", "-1", "-1">>,
     <<"close_vent_gate", "1", "-2", "-1", "-1">>,
     <<"open_vent_gate", "1", "x", "-1", "-1">>,
     <<"close_vent_gate", "0">>}

----------------------------------------------------------------------------
\* ATBuildingCsc: the TCP client side

\* The command names run_command is called with, and the lines the CSC's
\* commands send.
CommandNames == {"get_fan_drive_max_frequency", "ping", "stop_extraction_fan"}

CscLines == {<<"ping">>, <<"stop_extraction_fan">>}

\* The keys of self.response_queue (a defaultdict: a queue is made for any
\* name on first use) that the runs use: the command names, and the name of
\* an event that has no entry in self.callbacks.
QueueNames == CommandNames \cup {"evt_unregistered"}


Callers == 0..MaxCallers

NoCall ==
    [pc |-> "idle", line |-> <<>>, id |-> 0, outcome |-> "none", got |-> 0,
     cut |-> FALSE, result |-> [none |-> TRUE]]

NoApi == [op |-> "none", on |-> None, raised |-> ""]

\* self.callbacks
callbacks ==
    {"telemetry", "evt_extraction_fan_drive_fault_code",
     "evt_extraction_fan_drive_state", "evt_vent_gate_state"}

\* State after ATBuildingCsc.__init__
CscInit ==
    /\ client = None
    /\ mock_ctrl = None
    /\ hasattr_evt \in BOOLEAN
    /\ listeners = <<>>
    /\ response_queue = [n \in QueueNames |-> <<>>]
    /\ calls = [c \in Callers |-> NoCall]
    /\ toServer = <<>>
    /\ toClient = <<>>
    /\ nextId = 1
    /\ connect_state = "none"
    /\ api = NoApi
    /\ logged = FALSE

\* The CSC is not running: its variables keep their initial values.
CscIdle ==
    /\ CscInit
    /\ hasattr_evt = TRUE

\* run_command up to its wait: the command line is written to the client.
Written(c, line) ==
    [pc |-> "waiting", line |-> line, id |-> nextId, outcome |-> "none", got |-> 0,
     cut |-> FALSE, result |-> [none |-> TRUE]]

\* A field of a message record ("" when the record has no such field).
Field(r, f) == IF f \in DOMAIN r THEN r[f] ELSE ""

json_dumps_NoTraceback(r) ==
    <<Field(r, "command"), IF r.error = 0 THEN "0" ELSE "1",
      Field(r, "exception_name"), Field(r, "message")>>

\* json.dumps(response): the text of the record, as the texts of its values.
json_dumps(r) ==
    <<Field(r, "command"), IF r.error = 0 THEN "0" ELSE "1",
      Field(r, "exception_name"), Field(r, "message"), Field(r, "traceback"),
      Field(r, "return_value")>>

\* The value texts of the model in which `word` occurs.
Mentioning(word) ==
    IF word = "NotImplementedError"
    THEN {"NotImplementedError", "raise NotImplementedError"}
    ELSE {word}

\* word in str(exc), for an ExpectedError built from json.dumps(response)
Contains(text, word) == \E k \in 1..Len(text) : text[k] \in Mentioning(word)

\* connect() after its probe: a response, or an ExpectedError that mentions
\* NotImplementedError, ends connect normally; anything else is caught by
\* the outer except clause, which calls fault(TCPIP_CONNECT_ERROR).
after_probe(call) ==
    IF call.outcome = "returned" THEN "done"
    ELSE IF call.outcome = "ExpectedError"
            /\ Contains(call.result.text, "NotImplementedError")
         THEN "done"
    ELSE "fault(probe)"

already_connected_Silent ==
    /\ client = "connected"
    /\ api' = [op |-> "connect", on |-> client, raised |-> ""]
    /\ UNCHANGED <<ctrlVars, client, mock_ctrl, hasattr_evt, listeners, response_queue,
                   calls, toServer, toClient, nextId, connect_state, logged>>

\* connect() up to its first await: RuntimeError when the client is connected.
already_connected ==
    /\ client = "connected"
    /\ api' = [op |-> "connect", on |-> client, raised |-> "RuntimeError"]
    /\ UNCHANGED <<ctrlVars, client, mock_ctrl, hasattr_evt, listeners, response_queue,
                   calls, toServer, toClient, nextId, connect_state, logged>>

\* connect(): start_mock_ctrl builds and starts a new MockVentController, a
\* new tcpip.Client connects to it (the mock's on_connect starts a
\* monitor_status task), listen_for_messages is started as a task and, when
\* the CSC has the maximumDriveFrequency event, the probe command is written.
\* One connect() runs at a time: the probe of the previous one has ended.
connect ==
  \/ already_connected
  \/
    /\ client # "connected"
    /\ mock_ctrl = None
    /\ calls[0].pc = "idle"
    /\ connect_state # "probing"
    /\ api' = [op |-> "connect", on |-> client, raised |-> ""]
    /\ connect_state' = IF hasattr_evt THEN "probing" ELSE "done"
    /\ Len(listeners) < MaxReaders
    /\ nextId <= MaxSends
    /\ mock_ctrl' = "running"
    /\ client' = "connected"
    /\ listeners' = Append(listeners, "reading")
    /\ fan_frequency' = "0.0"
    /\ vent_states' = [g \in Gates |-> CLOSED]
    /\ manual_control_mode' = TRUE
    /\ fault_codes' = [i \in 1..FaultHistoryLen |-> InitialFaultCode]
    /\ fan_drive_state' = STOPPED
    /\ extraction_fan_drive_was_reset' = FALSE
    /\ telemetry_count' = 0
    /\ transitions' = <<>>
    /\ closed' = FALSE
    /\ connected' = TRUE
    /\ monitors' = <<[vent_state |-> NoneArray, last_fault |-> NoneCode,
                      fan_drive_state |-> None]>>
    /\ sent' = <<>>
    /\ toClient' = <<>>
    /\ IF hasattr_evt
       THEN /\ calls' = [calls EXCEPT ![0] = Written(0, <<"get_fan_drive_max_frequency">>)]
            /\ toServer' = <<[line |-> <<"get_fan_drive_max_frequency">>, id |-> nextId]>>
            /\ nextId' = nextId + 1
       ELSE /\ toServer' = <<>>
            /\ UNCHANGED <<calls, nextId>>
    /\ logged' = FALSE
    /\ UNCHANGED <<hasattr_evt, response_queue>>

disconnect_Unchecked ==
    /\ client' = IF client = None THEN None ELSE "closed"
    /\ api' = [op |-> "disconnect", on |-> client,
               raised |-> IF client = None THEN "AttributeError" ELSE ""]
    /\ listeners' = SelectSeq(listeners, LAMBDA pc : pc # "reading")
    /\ mock_ctrl' = None
    /\ IF mock_ctrl # None
       THEN close
       ELSE UNCHANGED ctrlVars
    /\ toServer' = <<>>
    /\ toClient' = <<>>
    /\ calls' = [c \in Callers |->
                   IF calls[c].pc = "waiting"
                      /\ response_queue[calls[c].line[1]] = <<>>
                   THEN [calls[c] EXCEPT !.cut = TRUE]
                   ELSE calls[c]]
    /\ UNCHANGED <<hasattr_evt, response_queue, nextId, connect_state, logged>>

\* disconnect(): closes the client, cancels the pending read of listen_task
\* and stops the mock controller.  A listener blocked in its read ends; one
\* that is inside a handler goes on to its loop test.  Lines in flight are lost.
disconnect ==
    /\ client' = IF client = None THEN None ELSE "closed"
    /\ api' = [op |-> "disconnect", on |-> client, raised |-> ""]
    /\ listeners' = SelectSeq(listeners, LAMBDA pc : pc # "reading")
    /\ mock_ctrl' = None
    /\ IF mock_ctrl # None
       THEN close
       ELSE UNCHANGED ctrlVars
    /\ toServer' = <<>>
    /\ toClient' = <<>>
    /\ calls' = [c \in Callers |->
                   IF calls[c].pc = "waiting"
                      /\ response_queue[calls[c].line[1]] = <<>>
                   THEN [calls[c] EXCEPT !.cut = TRUE]
                   ELSE calls[c]]
    /\ UNCHANGED <<hasattr_evt, response_queue, nextId, connect_state, logged>>

\* run_command(command) by one of the CSC's commands, up to its wait: the
\* assert fails when there is no client, the write raises ConnectionError
\* when the client is not connected, and a write that does not complete
\* within TCP_TIMEOUT raises TimeoutError.
run_command(c, line) ==
    /\ c # 0
    /\ calls[c].pc = "idle"
    /\ nextId <= MaxSends
    /\ \/ /\ client = "connected"
          /\ calls' = [calls EXCEPT ![c] = Written(c, line)]
          /\ toServer' = Append(toServer, [line |-> line, id |-> nextId])
          /\ nextId' = nextId + 1
       \/ /\ client = "connected"
          /\ calls' = [calls EXCEPT ![c] =
                          [NoCall EXCEPT !.line = line, !.outcome = "TimeoutError"]]
          /\ UNCHANGED <<toServer, nextId>>
       \/ /\ client # "connected"
          /\ calls' = [calls EXCEPT ![c] =
                          [NoCall EXCEPT !.line = line,
                                         !.outcome = IF client = None THEN "AssertionError"
                                                     ELSE "ConnectionError"]]
          /\ UNCHANGED <<toServer, nextId>>
    /\ UNCHANGED <<ctrlVars, client, mock_ctrl, hasattr_evt, listeners,
                   response_queue, toClient, connect_state, api, logged>>

\* run_command: response_queue[command_name].get() returns; a nonzero error
\* field raises salobj.ExpectedError.
run_command_response(c) ==
    /\ calls[c].pc = "waiting"
    /\ response_queue[calls[c].line[1]] # <<>>
    /\ LET name == calls[c].line[1]
           response == Head(response_queue[name])
       IN /\ response_queue' = [response_queue EXCEPT ![name] = Tail(@)]
          /\ calls' = [calls EXCEPT ![c] =
                          [@ EXCEPT !.pc = "idle",
                                    !.outcome = IF response.msg.error # 0
                                                THEN "ExpectedError" ELSE "returned",
                                    !.result = IF response.msg.error # 0
                                               THEN [text |-> json_dumps(response.msg)]
                                               ELSE [value |-> response.msg],
                                    !.got = response.re]]
    /\ connect_state' = IF c = 0 THEN after_probe(calls'[0]) ELSE connect_state
    /\ UNCHANGED <<ctrlVars, client, mock_ctrl, hasattr_evt, listeners, toServer,
                   toClient, nextId, api, logged>>

run_command_timeout_Never(c) == FALSE /\ UNCHANGED vars

\* run_command: TCP_TIMEOUT elapses with no response queued.
run_command_timeout(c) ==
    /\ calls[c].pc = "waiting"
    /\ response_queue[calls[c].line[1]] = <<>>
    /\ calls' = [calls EXCEPT ![c] = [@ EXCEPT !.pc = "idle", !.outcome = "TimeoutError"]]
    /\ connect_state' = IF c = 0 THEN after_probe(calls'[0]) ELSE connect_state
    /\ UNCHANGED <<ctrlVars, client, mock_ctrl, hasattr_evt, listeners,
                   response_queue, toServer, toClient, nextId, api, logged>>

\* json.loads(message) and message_json["command"]: the exception raised
\* ("" for none) by a line that is not JSON or has no command field.
json_loads(line) ==
    IF "raw" \in DOMAIN line.msg THEN "JSONDecodeError"
    ELSE IF "command" \notin DOMAIN line.msg THEN "KeyError"
    ELSE ""

listen_for_messages_Breaks(l) ==
    /\ l \in 1..Len(listeners)
    /\ listeners[l] = "reading"
    /\ client = "connected"
    /\ toClient # <<>>
    /\ toClient' = Tail(toClient)
    /\ LET message == Head(toClient) IN
       IF json_loads(message) # ""
       THEN /\ listeners' = [j \in 1..(Len(listeners) - 1) |->
                                IF j < l THEN listeners[j] ELSE listeners[j + 1]]
            /\ UNCHANGED response_queue
       ELSE IF message.msg.command \in callbacks
            THEN /\ listeners' = [listeners EXCEPT ![l] = "handling"]
                 /\ UNCHANGED response_queue
            ELSE /\ response_queue' = [response_queue EXCEPT
                                          ![message.msg.command] = Append(@, message)]
                 /\ UNCHANGED listeners
    /\ UNCHANGED <<ctrlVars, client, mock_ctrl, hasattr_evt, calls, toServer, nextId,
                   connect_state, api, logged>>

listen_for_messages_Newest(l) ==
    /\ l \in 1..Len(listeners)
    /\ listeners[l] = "reading"
    /\ client = "connected"
    /\ toClient # <<>>
    /\ toClient' = SubSeq(toClient, 1, Len(toClient) - 1)
    /\ LET message == toClient[Len(toClient)] IN
       IF json_loads(message) # ""
       THEN UNCHANGED <<listeners, response_queue>>
       ELSE IF message.msg.command \in callbacks
            THEN /\ listeners' = [listeners EXCEPT ![l] = "handling"]
                 /\ UNCHANGED response_queue
            ELSE /\ response_queue' = [response_queue EXCEPT
                                          ![message.msg.command] = Append(@, message)]
                 /\ UNCHANGED listeners
    /\ UNCHANGED <<ctrlVars, client, mock_ctrl, hasattr_evt, calls, toServer, nextId,
                   connect_state, api>>
    /\ logged' = (logged \/ json_loads(toClient[Len(toClient)]) # "")

\* listen_for_messages, listener l: a line is read; a line that cannot be
\* decoded is logged by the except clause and the loop goes on; a message
\* named in callbacks goes to its handler, any other to the queue of its
\* command name.
listen_for_messages(l) ==
    /\ l \in 1..Len(listeners)
    /\ listeners[l] = "reading"
    /\ client = "connected"
    /\ toClient # <<>>
    /\ toClient' = Tail(toClient)
    /\ LET message == Head(toClient) IN
       IF json_loads(message) # ""
       THEN UNCHANGED <<listeners, response_queue>>
       ELSE IF message.msg.command \in callbacks
            THEN /\ listeners' = [listeners EXCEPT ![l] = "handling"]
                 /\ UNCHANGED response_queue
            ELSE /\ response_queue' = [response_queue EXCEPT
                                          ![message.msg.command] = Append(@, message)]
                 /\ UNCHANGED listeners
    /\ UNCHANGED <<ctrlVars, client, mock_ctrl, hasattr_evt, calls, toServer, nextId,
                   connect_state, api>>
    /\ logged' = (logged \/ json_loads(Head(toClient)) # "")

\* listen_for_messages, listener l: the handler returns and the loop tests
\* self.client.connected.
handler_returns(l) ==
    /\ l \in 1..Len(listeners)
    /\ listeners[l] = "handling"
    /\ listeners' = IF client = "connected"
                    THEN [listeners EXCEPT ![l] = "reading"]
                    ELSE [j \in 1..(Len(listeners) - 1) |->
                             IF j < l THEN listeners[j] ELSE listeners[j + 1]]
    /\ UNCHANGED <<ctrlVars, client, mock_ctrl, hasattr_evt, response_queue, calls,
                   toServer, toClient, nextId, connect_state, api, logged>>

\* The lines of `msgs` as they travel to the client, each with the number of
\* the command line it answers (0 for an event or telemetry).
OnWire(msgs, id) == [k \in 1..Len(msgs) |-> [msg |-> msgs[k], re |-> id]]

\* The controller reads the next command line and answers it.
Serve ==
    /\ toServer # <<>>
    /\ read_and_dispatch(Head(toServer).line)
    /\ toServer' = Tail(toServer)
    /\ toClient' = toClient \o OnWire(sent', Head(toServer).id)
    /\ Len(toClient') <= MaxWire
    /\ UNCHANGED <<client, mock_ctrl, hasattr_evt, listeners, response_queue, calls,
                   nextId, connect_state, api, logged>>

\* A pass of the controller's monitor loop, its lines written to the client.
Push ==
    /\ \E i \in 1..MaxLoops : monitor_status(i)
    /\ toClient' = IF connected THEN toClient \o OnWire(sent', 0) ELSE toClient
    /\ Len(toClient') <= MaxWire
    /\ UNCHANGED <<client, mock_ctrl, hasattr_evt, listeners, response_queue, calls,
                   toServer, nextId, connect_state, api, logged>>

\* conn at a connect(): a new connection begins with the next command number.
ObserveConnect ==
    conn' = IF client = "connected" THEN conn
            ELSE [firstId |-> nextId, wrote |-> "", read |-> ""]

\* conn.wrote: the command of the first line the controller writes on the
\* connection.
ObserveWrite ==
    conn' = IF conn.wrote = "" /\ connected /\ sent' # <<>>
            THEN [conn EXCEPT !.wrote = sent'[1].command]
            ELSE conn

\* What listen_for_messages does with a line it has read.
Disposal(line) ==
    IF json_loads(line) # "" THEN "logged"
    ELSE IF line.msg.command \in callbacks THEN "handler"
    ELSE "queue"

\* conn.read: what became of the first line read on the connection.
ObserveRead ==
    conn' = IF conn.read = "" THEN [conn EXCEPT !.read = Disposal(Head(toClient))]
            ELSE conn

CscNext ==
    \/ connect /\ ObserveConnect /\ UNCHANGED <<obsVars, fanVars, watchVars>>
    \/ disconnect /\ UNCHANGED <<obsVars, fanVars, watchVars, connVars>>
    \/ \E c \in Callers, line \in CscLines :
          run_command(c, line) /\ UNCHANGED <<obsVars, fanVars, watchVars, connVars>>
    \/ \E c \in Callers :
          run_command_response(c) /\ UNCHANGED <<obsVars, fanVars, watchVars, connVars>>
    \/ \E c \in Callers :
          run_command_timeout(c) /\ UNCHANGED <<obsVars, fanVars, watchVars, connVars>>
    \/ \E l \in 1..MaxReaders :
          listen_for_messages(l) /\ ObserveRead /\ UNCHANGED <<obsVars, fanVars, watchVars>>
    \/ \E l \in 1..MaxReaders :
          handler_returns(l) /\ UNCHANGED <<obsVars, fanVars, watchVars, connVars>>
    \/ Serve /\ ObserveWrite /\ UNCHANGED <<obsVars, fanVars, watchVars>>
    \/ Push /\ ObserveWrite /\ UNCHANGED <<obsVars, fanVars, watchVars>>

\* The CSC is constructed; its mock controller is built by connect.
CscStart == CtrlInit /\ ObsInit /\ CscInit

\* The CSC with its mock controller (simulation_mode 1).
CscSpec == CscStart /\ [][CscNext]_vars

----------------------------------------------------------------------------
\* ATBuildingCsc against a controller at config.host (simulation_mode 0)

\* connect() with simulation_mode 0: the client's start_task fails (refused,
\* or not done within connection_timeout) and the except clause calls
\* fault(TCPIP_CONNECT_ERROR), or the client connects, listen_for_messages
\* is started and the probe is written.
connect_remote ==
  \/ already_connected
  \/
    /\ client # "connected"
    /\ connect_state # "probing"
    /\ api' = [op |-> "connect", on |-> client, raised |-> ""]
    /\ \/ /\ client' = "closed"
          /\ connect_state' = "fault(start_task)"
          /\ UNCHANGED <<listeners, calls, toServer, toClient, nextId, logged>>
       \/ /\ Len(listeners) < MaxReaders
          /\ nextId <= MaxSends
          /\ client' = "connected"
          /\ logged' = FALSE
          /\ listeners' = Append(listeners, "reading")
          /\ toClient' = <<>>
          /\ connect_state' = IF hasattr_evt THEN "probing" ELSE "done"
          /\ IF hasattr_evt
             THEN /\ calls' = [calls EXCEPT
                                 ![0] = Written(0, <<"get_fan_drive_max_frequency">>)]
                  /\ toServer' = <<[line |-> <<"get_fan_drive_max_frequency">>,
                                    id |-> nextId]>>
                  /\ nextId' = nextId + 1
             ELSE /\ toServer' = <<>>
                  /\ UNCHANGED <<calls, nextId>>
    /\ UNCHANGED <<ctrlVars, mock_ctrl, hasattr_evt, response_queue>>

\* The responses a controller may give to a command line.
PeerResponses(command) ==
    {[command |-> command, error |-> 0, exception_name |-> "", message |-> "",
      traceback |-> ""],
     [command |-> command, error |-> 0, exception_name |-> "", message |-> "",
      traceback |-> "", return_value |-> "50.0"],
     [command |-> command, error |-> 1, exception_name |-> "NotImplementedError",
      message |-> "No such command", traceback |-> ""],
     [command |-> command, error |-> 1, exception_name |-> "RuntimeError",
      message |-> "failed", traceback |-> "raise NotImplementedError"],
     [command |-> command, error |-> 1, exception_name |-> "ValueError",
      message |-> "bad value", traceback |-> ""]}

\* Lines a controller may write unasked: one that is not JSON, a JSON record
\* without a command field, and a telemetry message.
PeerLines ==
    {[raw |-> "not json"],
     [error |-> 0, message |-> ""],
     [command |-> "telemetry", error |-> 0, exception_name |-> "", message |-> "",
      traceback |-> "", data |-> [tel_extraction_fan |-> "0.0"]]}

\* The controller reads the next command line and answers it.
PeerAnswers ==
    /\ client = "connected"
    /\ toServer # <<>>
    /\ Len(toClient) < MaxWire
    /\ toServer' = Tail(toServer)
    /\ \E r \in PeerResponses(Head(toServer).line[1]) :
          toClient' = Append(toClient, [msg |-> r, re |-> Head(toServer).id])
    /\ UNCHANGED <<ctrlVars, client, mock_ctrl, hasattr_evt, listeners, response_queue,
                   calls, nextId, connect_state, api, logged>>

\* The controller reads the next command line and never answers it.
PeerDrops ==
    /\ client = "connected"
    /\ toServer # <<>>
    /\ toServer' = Tail(toServer)
    /\ UNCHANGED <<ctrlVars, client, mock_ctrl, hasattr_evt, listeners, response_queue,
                   calls, toClient, nextId, connect_state, api, logged>>

\* The controller writes a line of its own.
PeerWrites ==
    /\ client = "connected"
    /\ Len(toClient) < MaxWire
    /\ Len(SelectSeq(toClient, LAMBDA m : m.re = 0)) < MaxUnasked
    /\ \E m \in PeerLines : toClient' = Append(toClient, [msg |-> m, re |-> 0])
    /\ UNCHANGED <<ctrlVars, client, mock_ctrl, hasattr_evt, listeners, response_queue,
                   calls, toServer, nextId, connect_state, api, logged>>

Listen == \E l \in 1..MaxReaders : listen_for_messages(l) /\ UNCHANGED <<obsVars, fanVars, watchVars, connVars>>

HandlerReturns ==
    \E l \in 1..MaxReaders : handler_returns(l) /\ UNCHANGED <<obsVars, fanVars, watchVars, connVars>>

CommandEnds(c) ==
    (run_command_response(c) \/ run_command_timeout(c)) /\ UNCHANGED <<obsVars, fanVars, watchVars, connVars>>

\* The line the CSC's commands send under PeerSpec.
PeerCscLines == {<<"ping">>}

\* The steps of the CSC and of the controller answering it.
PeerSteps ==
    \/ connect_remote /\ UNCHANGED <<obsVars, fanVars, watchVars, connVars>>
    \/ disconnect /\ UNCHANGED <<obsVars, fanVars, watchVars, connVars>>
    \/ \E c \in Callers, line \in PeerCscLines :
          run_command(c, line) /\ UNCHANGED <<obsVars, fanVars, watchVars, connVars>>
    \/ \E c \in Callers : CommandEnds(c)
    \/ Listen
    \/ HandlerReturns
    \/ PeerAnswers /\ UNCHANGED <<obsVars, fanVars, watchVars, connVars>>
    \/ PeerDrops /\ UNCHANGED <<obsVars, fanVars, watchVars, connVars>>

PeerNext ==
    \/ PeerSteps
    \/ PeerWrites /\ UNCHANGED <<obsVars, fanVars, watchVars, connVars>>

\* The CSC against a controller on the network.
PeerSpec == CscStart /\ [][PeerNext]_vars

\* ... where a reader that has a line to read reads it, a callback returns,
\* and a run_command wait ends: with the response queued for it, or when
\* TCP_TIMEOUT elapses.
PeerFairSpec ==
    /\ PeerSpec
    /\ WF_vars(Listen)
    /\ WF_vars(HandlerReturns)
    /\ \A c \in Callers : WF_vars(CommandEnds(c))

\* Event and telemetry lines a controller may write: a telemetry message, an
\* event self.callbacks holds, and an event it does not hold.
EventLines ==
    {[command |-> "telemetry", error |-> 0, exception_name |-> "", message |-> "",
      traceback |-> "", data |-> [tel_extraction_fan |-> "0.0"]],
     [command |-> "evt_extraction_fan_drive_state", error |-> 0, exception_name |-> "",
      message |-> "", traceback |-> "", data |-> STOPPED],
     [command |-> "evt_unregistered", error |-> 0, exception_name |-> "", message |-> "",
      traceback |-> "", data |-> 0]}

\* The controller writes an event or telemetry line.
PeerPublishes ==
    /\ client = "connected"
    /\ Len(toClient) < MaxWire
    /\ Len(SelectSeq(toClient, LAMBDA m : m.re = 0)) < MaxUnasked
    /\ \E m \in EventLines :
          /\ m.command \in QueueNames => Len(response_queue[m.command]) < MaxUnasked
          /\ toClient' = Append(toClient, [msg |-> m, re |-> 0])
    /\ UNCHANGED <<ctrlVars, client, mock_ctrl, hasattr_evt, listeners, response_queue,
                   calls, toServer, nextId, connect_state, api, logged>>

RouteNext ==
    \/ PeerSteps
    \/ PeerPublishes /\ UNCHANGED <<obsVars, fanVars, watchVars, connVars>>

\* The CSC against a controller on the network that publishes events.
RouteSpec == CscStart /\ [][RouteNext]_vars

----------------------------------------------------------------------------
Init == CtrlInit /\ ObsInit /\ CscIdle

\* The mock controller with its monitor loops, serving gate commands.
Connect == on_connect /\ UNCHANGED <<obsVars, cscVars, fanVars, watchVars, connVars>>

Disconnect ==
    ClientDisconnect /\ track' = NoTrack /\ ventEvt' = NoneArray
    /\ UNCHANGED <<last, had_error, later, cscVars, fanVars, watchVars, connVars>>

GateCommand ==
    \E data \in GateLines :
        read_and_dispatch(data) /\ ObserveTrack(data)
        /\ UNCHANGED <<last, had_error, later, cscVars, fanVars, watchVars, connVars>>

Settle == _set_vent_state /\ UNCHANGED <<obsVars, cscVars, fanVars, watchVars, connVars>>

Monitor ==
    \E i \in 1..MaxLoops :
        monitor_status(i) /\ ObserveMonitor
        /\ UNCHANGED <<last, had_error, later, track, cscVars, fanVars, watchVars, connVars>>

Close ==
    close /\ track' = NoTrack /\ ventEvt' = NoneArray
    /\ UNCHANGED <<last, had_error, later, cscVars, fanVars, watchVars, connVars>>

Next == Connect \/ Disconnect \/ GateCommand \/ Settle \/ Monitor \/ Close

Spec == Init /\ [][Next]_vars

\* The dispatcher alone, on the full range of command lines.
DispatchCommand ==
    \E data \in DispatchLines :
        read_and_dispatch(data) /\ ObserveDispatch(data) /\ ObserveLater(data)
        /\ UNCHANGED <<track, ventEvt, cscVars, fanVars, watchVars, connVars>>

DispatchSettle ==
    _set_vent_state /\ last' = NoDispatch
    /\ UNCHANGED <<had_error, later, track, ventEvt, cscVars, fanVars, watchVars, connVars>>

DispatchConnect ==
    on_connect /\ last' = NoDispatch
    /\ UNCHANGED <<had_error, later, track, ventEvt, cscVars, fanVars, watchVars, connVars>>

DispatchDisconnect ==
    ClientDisconnect /\ last' = NoDispatch
    /\ UNCHANGED <<had_error, later, track, ventEvt, cscVars, fanVars, watchVars, connVars>>

DispatchNext ==
    DispatchConnect \/ DispatchDisconnect \/ DispatchCommand \/ DispatchSettle

DispatchSpec == Init /\ [][DispatchNext]_vars

\* The fan command lines a client sends to the controller under FanSpec.
FanLines ==
    {<<"set_extraction_fan_drive_freq", "12.5">>,
     <<"set_extraction_fan_drive_freq", "1">>,
     <<"set_extraction_fan_drive_freq", "x">>,
     <<"start_extraction_fan">>, <<"stop_extraction_fan">>, <<"ping">>}

\* fanCmd: the argument token of the newest set_extraction_fan_drive_freq
\* answered with success; None once start_extraction_fan or
\* stop_extraction_fan has been answered with success after it.
ObserveFan(data) ==
    LET ok == Len(sent') = 1 /\ sent'[1].error = 0
    IN fanCmd' = IF ok /\ data[1] = "set_extraction_fan_drive_freq" THEN data[2]
                 ELSE IF ok /\ data[1] \in {"start_extraction_fan", "stop_extraction_fan"}
                      THEN None
                 ELSE fanCmd

FanCommand ==
    \E data \in FanLines :
        read_and_dispatch(data) /\ ObserveFan(data)
        /\ UNCHANGED <<obsVars, cscVars, watchVars, connVars>>

FanMonitor ==
    \E i \in 1..MaxLoops : monitor_status(i) /\ UNCHANGED <<obsVars, cscVars, fanVars, watchVars, connVars>>

FanConnect == on_connect /\ UNCHANGED <<obsVars, cscVars, fanVars, watchVars, connVars>>

FanDisconnect == ClientDisconnect /\ UNCHANGED <<obsVars, cscVars, fanVars, watchVars, connVars>>

FanNext == FanConnect \/ FanDisconnect \/ FanCommand \/ FanMonitor

\* The fan commands with the monitor_status loops.
FanSpec == Init /\ [][FanNext]_vars

\* ... and a monitor_status loop takes its next pass.
FanFairSpec == FanSpec /\ WF_vars(FanMonitor)

----------------------------------------------------------------------------
\* The watched values and the monitor_status loops (WatchSpec)

\* The values the tests give to the fault history and to the drive state.
FaultCodes == {InitialFaultCode, 123}

DriveStates == {STOPPED, OPERATING}

\* test_drive_fault_code: mock_ctrl.fault_codes = [code] * 8
SetFaultCodes(code) ==
    /\ ~closed
    /\ fault_codes' = [i \in 1..FaultHistoryLen |-> code]
    /\ sent' = <<>>
    /\ UNCHANGED <<fan_frequency, vent_states, manual_control_mode, fan_drive_state,
                   extraction_fan_drive_was_reset, telemetry_count, transitions,
                   connected, closed, monitors>>

\* test_drive_state: mock_ctrl.fan_drive_state = state
SetFanDriveState(state) ==
    /\ ~closed
    /\ fan_drive_state' = state
    /\ sent' = <<>>
    /\ UNCHANGED <<fan_frequency, vent_states, manual_control_mode, fault_codes,
                   extraction_fan_drive_was_reset, telemetry_count, transitions,
                   connected, closed, monitors>>

\* The locals of monitor_status before its first pass.
NoSnapshot == [vent_state |-> NoneArray, last_fault |-> NoneCode, fan_drive_state |-> None]

\* The data of the newest `kind` line among msgs, `old` when there is none.
EventData(msgs, kind, old) ==
    LET evts == {k \in 1..Len(msgs) : msgs[k].command = kind}
    IN IF evts = {} THEN old
       ELSE msgs[CHOOSE k \in evts : \A j \in evts : j <= k].data

\* published[i]: the data of the last event of each kind that loop i wrote.
ObservePublished(i) ==
    published' =
        IF ~connected
        THEN [j \in 1..(Len(published) - 1) |->
                IF j < i THEN published[j] ELSE published[j + 1]]
        ELSE [published EXCEPT ![i] =
                [vent_state |-> EventData(sent', "evt_vent_gate_state", @.vent_state),
                 last_fault |->
                     EventData(sent', "evt_extraction_fan_drive_fault_code", @.last_fault),
                 fan_drive_state |->
                     EventData(sent', "evt_extraction_fan_drive_state", @.fan_drive_state)]]

\* A telemetry line is among msgs.
HasTelemetry(msgs) == \E k \in 1..Len(msgs) : msgs[k].command = "telemetry"

\* sinceTel: the passes made on this connection since one wrote a telemetry
\* line; -1 until the first telemetry line of the connection.
ObserveTelemetry ==
    sinceTel' = IF ~connected THEN sinceTel
                ELSE IF HasTelemetry(sent') THEN 0
                ELSE IF sinceTel < 0 THEN sinceTel
                ELSE sinceTel + 1

\* The gate command lines a client sends under WatchSpec.
WatchLines ==
    {<<"open_vent_gate", "0", "-1", "-1", "-1">>,
     <<"close_vent_gate", "0", "-1", "-1", "-1">>}

WatchConnect ==
    /\ on_connect
    /\ published' = Append(published, NoSnapshot)
    /\ sinceTel' = -1
    /\ UNCHANGED <<obsVars, cscVars, fanVars, connVars>>

WatchDisconnect ==
    ClientDisconnect /\ UNCHANGED <<obsVars, cscVars, fanVars, watchVars, connVars>>

WatchGate ==
    \E data \in WatchLines :
        read_and_dispatch(data) /\ UNCHANGED <<obsVars, cscVars, fanVars, watchVars, connVars>>

WatchSettle == _set_vent_state /\ UNCHANGED <<obsVars, cscVars, fanVars, watchVars, connVars>>

WatchFault ==
    \E code \in FaultCodes :
        SetFaultCodes(code) /\ UNCHANGED <<obsVars, cscVars, fanVars, watchVars, connVars>>

WatchDrive ==
    \E state \in DriveStates :
        SetFanDriveState(state) /\ UNCHANGED <<obsVars, cscVars, fanVars, watchVars, connVars>>

WatchMonitor ==
    \E i \in 1..MaxLoops :
        /\ monitor_status(i)
        /\ ObservePublished(i)
        /\ ObserveTelemetry
        /\ UNCHANGED <<obsVars, cscVars, fanVars, connVars>>

WatchNext ==
    \/ WatchConnect \/ WatchDisconnect \/ WatchGate \/ WatchSettle
    \/ WatchFault \/ WatchDrive \/ WatchMonitor

\* The controller with its watched values changing under the monitor loops.
WatchSpec == Init /\ [][WatchNext]_vars

\* The controller under the scheduling asyncio guarantees: a sleeping
\* _set_vent_state task wakes, and a monitor_status loop takes its next pass.
FairSpec == Spec /\ WF_vars(Settle) /\ WF_vars(Monitor)

----------------------------------------------------------------------------
\* Properties of the dispatcher (DispatchSpec)

\* The last step dispatched a non-blank command line.
Dispatched == last.line # <<>>

LastCommand == last.line[1]

LastArgs == Tail(last.line)

\* The dispatched line names a registered command with the signature's arity.
Registered == Dispatched /\ LastCommand \in DOMAIN dispatch_dict

RightArity == Registered /\ Len(LastArgs) = Len(dispatch_dict[LastCommand])

\* ... and every token converts to its declared type.
WellTyped == RightArity /\ ConvertArgs(dispatch_dict[LastCommand], LastArgs).exc = ""

\* ... and, for a gate command, every argument is -1 or a gate number 0..3.
GatesInRange ==
    WellTyped /\ (IsGateCommand(LastCommand) =>
                    \A i \in 1..Len(LastArgs) : IntValue[LastArgs[i]] \in Gates \cup {-1})

OneSuccess ==
    /\ last.invoked = <<LastCommand>>
    /\ Len(sent) = 1
    /\ sent[1].command = LastCommand
    /\ sent[1].error = 0

\* A run_command call that has ended with a response.
Answered(c) == calls[c].pc = "idle" /\ calls[c].outcome \in {"returned", "ExpectedError"}

\* C1 (as claimed): a response read while no run_command waits for its command
\* name is discarded, so every run_command that ends with a response has
\* received the response to the command line it wrote itself.
C1_OwnResponse == \A c \in Callers : Answered(c) => calls[c].got = calls[c].id

\* C2 (as claimed): a run_command whose wait was outstanding when disconnect()
\* ran ends with a connection-closed error, never with a timeout.
C2_ClosedNotTimeout ==
    \A c \in Callers :
        (calls[c].cut /\ calls[c].pc = "idle") => calls[c].outcome = "ConnectionClosed"

\* C3 (as claimed): once no transition is pending, a gate that was commanded
\* while an earlier transition of it was pending is in the target state of
\* the later command.
C3_LastCommandWins ==
    transitions = <<>> => \A g \in Gates : later[g] # None => vent_states[g] = later[g]

\* C4 (as claimed): every well-typed line of a registered command, the gate
\* commands with any four integers, invokes one handler and is answered once,
\* with error=0.
C4_AnyIntegers == WellTyped => OneSuccess

\* C4 (amended): every well-typed line of a registered command, the gate
\* commands with four integers each -1 or in 0..3, invokes exactly one handler
\* and is answered by exactly one response, with error=0.
C4_ValidCommand == GatesInRange => OneSuccess

C4_Witness ==
    /\ GatesInRange
    /\ IsGateCommand(LastCommand)
    /\ transitions # <<>>
    /\ sent # <<>> /\ sent[1].error = 0

\* C5: every non-blank command line is answered by exactly one response line,
\* whose command field is the first token of the line, whatever the outcome.
C5_OneResponsePerLine ==
    Dispatched => Len(sent) = 1 /\ sent[1].command = LastCommand

C5_Witness ==
    /\ Dispatched
    /\ last.invoked # <<>>
    /\ Len(sent) = 1 /\ sent[1].error = 1
    /\ had_error

\* C6: a command name that is not in dispatch_dict is answered with error=1 and
\* exception_name NotImplementedError, no handler is invoked, and the step
\* changes neither the device state nor the pending transitions.
C6_UnknownCommand ==
    [][(last'.line # <<>> /\ last'.line[1] \notin DOMAIN dispatch_dict) =>
          /\ Len(sent') = 1
          /\ sent'[1].error = 1
          /\ sent'[1].exception_name = "NotImplementedError"
          /\ last'.invoked = <<>>
          /\ UNCHANGED <<device, transitions>>]_vars

C6_Witness ==
    /\ Dispatched
    /\ ~Registered
    /\ sent # <<>> /\ sent[1].exception_name = "NotImplementedError"
    /\ fan_frequency = "12.5"

\* C7: a registered command with a number of argument tokens different from
\* its signature's arity is answered with error=1 and exception_name TypeError,
\* and no handler is invoked.
C7_WrongArity ==
    (Registered /\ ~RightArity) =>
        /\ Len(sent) = 1
        /\ sent[1].error = 1
        /\ sent[1].exception_name = "TypeError"
        /\ last.invoked = <<>>

C7_Witness ==
    /\ Registered
    /\ Len(LastArgs) > Len(dispatch_dict[LastCommand])
    /\ sent # <<>> /\ sent[1].exception_name = "TypeError"

\* C8: an exception raised by the type conversion or by the handler is answered
\* with error=1 and the exception's type name; a handler that returns normally
\* is answered with error=0; and the dispatcher goes on serving lines after an
\* error (the property holds of every dispatch, those after an error included).
C8_ExceptionsReported ==
    RightArity =>
        LET conv == ConvertArgs(dispatch_dict[LastCommand], LastArgs) IN
        /\ Len(sent) = 1
        /\ IF conv.exc # ""
           THEN /\ sent[1].error = 1
                /\ sent[1].exception_name = "ValueError"
                /\ last.invoked = <<>>
           ELSE LET exc == CallHandler(LastCommand, conv.values).exc IN
                /\ last.invoked = <<LastCommand>>
                /\ sent[1].error = (IF exc = "" THEN 0 ELSE 1)
                /\ sent[1].exception_name = exc
                /\ IsGateCommand(LastCommand) =>
                     \/ exc = "ValueError" /\ \E i \in 1..Len(conv.values) : conv.values[i] < -1
                     \/ exc = "IndexError" /\ \E i \in 1..Len(conv.values) : conv.values[i] > 3
                     \/ exc = "" /\ \A i \in 1..Len(conv.values) : conv.values[i] \in Gates \cup {-1}

\* A line is served without error after an earlier line was answered with an error.
C8_Witness ==
    /\ RightArity
    /\ had_error
    /\ sent # <<>> /\ sent[1].error = 0
    /\ last.invoked = <<LastCommand>>

----------------------------------------------------------------------------
\* Properties of the gate transitions and the monitor loop (Spec, FairSpec)

\* The slots in which two gate arrays differ.
Changed(a, b) == {g \in Gates : a[g] # b[g]}

\* The followed command names one gate and -1 in the other three slots.
SingleGate ==
    /\ track # NoTrack
    /\ Len(track.line) = NumGates + 1
    /\ Cardinality({i \in 2..Len(track.line) : track.line[i] # "-1"}) = 1

\* The followed command moves several gates.
SeveralGates == track # NoTrack /\ Cardinality(Changed(track.from, track.to)) >= 2

\* C9 (as claimed): after one command that moves several gates, no
\* evt_vent_gate_state is published that shows only some of them moved: the
\* next event carries the final array.
C9_OneChangeEvent == SeveralGates => ventEvt \in {NoneArray, track.to}

\* C10: a command naming one gate g that is not in the target state (on an idle
\* controller whose last event showed the current array) changes no gate
\* itself and schedules one transition, of gate g; when it has settled the
\* array differs from the one before the command in slot g alone, which holds
\* the target; and an evt_vent_gate_state carrying that array is published,
\* unless another command or a disconnect comes first.
C10_SingleGate ==
    /\ [][(track' # track /\ track' # NoTrack /\ SingleGate') =>
            /\ vent_states' = vent_states
            /\ Len(transitions') = 1
            /\ Changed(track'.from, track'.to) = {transitions'[1].gate}
            /\ track'.line[1 + CHOOSE i \in 1..NumGates : track'.line[1 + i] # "-1"]
                 = CASE transitions'[1].gate = 0 -> "0" [] transitions'[1].gate = 1 -> "1"
                     [] transitions'[1].gate = 2 -> "2" [] transitions'[1].gate = 3 -> "3"
            /\ transitions'[1].state = GateTarget(track'.line[1])]_vars
    /\ [](SingleGate /\ transitions = <<>> =>
            /\ vent_states = track.to
            /\ Cardinality(Changed(track.from, vent_states)) = 1
            /\ \A g \in Changed(track.from, vent_states) :
                  vent_states[g] = GateTarget(track.line[1]))
    /\ (SingleGate ~> (track = NoTrack \/ ventEvt = track.to))

C10_Witness ==
    /\ SingleGate
    /\ transitions = <<>>
    /\ ventEvt = track.to
    /\ track.to # track.from
    /\ sent # <<>> /\ sent[1].command = "evt_vent_gate_state"

----------------------------------------------------------------------------
\* Response and transition of a gate command (DispatchSpec)

\* The step dispatched a gate command that was answered with success and
\* created at least one _set_vent_state task.
GateCommandAnswered ==
    /\ last'.line # <<>>
    /\ IsGateCommand(last'.line[1])
    /\ Len(sent') = 1 /\ sent'[1].error = 0
    /\ Len(transitions') > Len(transitions)

\* C11: the success response to a gate command that schedules a transition is
\* written while every gate still has its old state and the scheduled tasks
\* are pending; a gate changes state only in a later step, when its pending
\* _set_vent_state task wakes, and that step writes no response.
C11_ResponseBeforeTransition ==
    [][/\ GateCommandAnswered =>
            /\ vent_states' = vent_states
            /\ \A k \in (Len(transitions) + 1)..Len(transitions') :
                  vent_states'[transitions'[k].gate] # transitions'[k].state
       /\ vent_states' # vent_states =>
            /\ transitions # <<>>
            /\ transitions' = Tail(transitions)
            /\ last' = NoDispatch
            /\ sent' = <<>>
            /\ vent_states' = [vent_states EXCEPT
                                 ![Head(transitions).gate] = Head(transitions).state]]_vars

C11_Witness ==
    /\ Dispatched
    /\ LastCommand = "open_vent_gate"
    /\ Len(sent) = 1 /\ sent[1].error = 0 /\ sent[1].command = "open_vent_gate"
    /\ \E k \in 1..Len(transitions) :
          /\ transitions[k] = [gate |-> 0, state |-> OPENED]
          /\ vent_states[0] = CLOSED

----------------------------------------------------------------------------
\* Fan frequency and telemetry (FanSpec)

\* The step just taken wrote a telemetry line carrying the frequency of token f.
TelemetryOf(f) ==
    \E k \in 1..Len(sent) :
        /\ sent[k].command = "telemetry"
        /\ sent[k].data = [tel_extraction_fan |-> FloatValue[f]]

\* C12: once set_extraction_fan_drive_freq f has been answered with success
\* and no start/stop command has been answered since, fan_frequency is f (it
\* already is when the response is written), every telemetry line carries f,
\* and while the client stays connected a telemetry line carrying f is written.
C12_FrequencyReported ==
    /\ [](fanCmd # None =>
            /\ fan_frequency = FloatValue[fanCmd]
            /\ \A k \in 1..Len(sent) :
                  sent[k].command = "telemetry" =>
                      sent[k].data = [tel_extraction_fan |-> FloatValue[fanCmd]])
    /\ \A f \in {"12.5", "1"} :
          (fanCmd = f) ~> (TelemetryOf(f) \/ fanCmd # f \/ ~connected)

C12_Witness ==
    /\ fanCmd = "1"
    /\ TelemetryOf("1")
    /\ connected

----------------------------------------------------------------------------
\* The reader and run_command against a controller on the network (PeerSpec)

\* The line cannot be decoded into a record with a command field.
Malformed(line) == json_loads(line) # ""

\* The response to command line `id` is on the wire behind a malformed line.
BehindMalformed(id) ==
    \E k \in 2..Len(toClient) :
        /\ toClient[k].re = id
        /\ \E j \in 1..(k - 1) : Malformed(toClient[j])

\* The response to command line `id` has reached the queue of its command
\* name, or the run_command that waited for it.
Routed(id) ==
    \/ \E n \in CommandNames : \E k \in 1..Len(response_queue[n]) :
          response_queue[n][k].re = id
    \/ \E c \in Callers : calls[c].got = id

\* C13: a reader that reads a malformed line logs it and stays in its loop,
\* leaving the response queues and the waiting run_command calls alone; a
\* connected client always has a reader; and a response that is on the wire
\* behind a malformed line is routed to the queue of its command name.
C13_MalformedSkipped ==
    /\ [][\A l \in 1..Len(listeners) :
            (listen_for_messages(l) /\ Malformed(Head(toClient))) =>
                /\ logged'
                /\ listeners' = listeners
                /\ response_queue' = response_queue
                /\ calls' = calls
                /\ client' = client]_vars
    /\ [](client = "connected" => \E l \in 1..Len(listeners) : TRUE)
    /\ \A id \in 1..MaxSends :
          BehindMalformed(id) ~> (Routed(id) \/ client # "connected")

C13_Witness ==
    /\ logged
    /\ client = "connected"
    /\ \E l \in 1..Len(listeners) : listeners[l] = "reading"
    /\ \E c \in Callers :
          /\ calls[c].pc = "waiting"
          /\ response_queue[calls[c].line[1]] # <<>>
          /\ Head(response_queue[calls[c].line[1]]).re = calls[c].id

\* The ways a run_command call ends.
Endings == {"returned", "ExpectedError", "TimeoutError", "ConnectionError", "AssertionError"}

\* C14: a run_command call is either waiting for its response or has ended
\* (with the response, an error raised from an error response, a timeout or
\* a failed write), and every wait ends, also when the controller never answers.
C14_RunCommandEnds ==
    /\ [](\A c \in Callers :
            \/ calls[c].pc = "waiting" /\ calls[c].outcome = "none"
            \/ calls[c].pc = "idle" /\ calls[c].outcome \in Endings \cup {"none"})
    /\ \A c \in Callers :
          (calls[c].pc = "waiting") ~> (calls[c].pc = "idle" /\ calls[c].outcome \in Endings)

\* A call timed out although its line was written: the controller read the
\* line and never answered.
C14_Witness ==
    \E c \in Callers :
        /\ calls[c].pc = "idle"
        /\ calls[c].outcome = "TimeoutError"
        /\ calls[c].id > 0
        /\ client = "connected"
        /\ toServer = <<>> /\ toClient = <<>>
        /\ \A n \in CommandNames : response_queue[n] = <<>>

\* The value `v` is one of the values of the dumped text.
InText(text, v) == \E k \in 1..Len(text) : text[k] = v

\* C15: when run_command's wait is resolved by a response with a nonzero
\* error field the call raises ExpectedError whose text carries the
\* response's exception_name, message and traceback; with error 0 the call
\* returns the response record itself, its return_value included.
C15_ResponseOrError ==
    [][\A c \in Callers :
          run_command_response(c) =>
              LET r == Head(response_queue[calls[c].line[1]]).msg IN
              IF r.error # 0
              THEN /\ calls'[c].outcome = "ExpectedError"
                   /\ InText(calls'[c].result.text, Field(r, "exception_name"))
                   /\ InText(calls'[c].result.text, Field(r, "message"))
                   /\ InText(calls'[c].result.text, Field(r, "traceback"))
              ELSE /\ calls'[c].outcome = "returned"
                   /\ calls'[c].result = [value |-> r]]_vars

C15_Witness ==
    /\ calls[0].pc = "idle" /\ calls[0].outcome = "returned"
    /\ "return_value" \in DOMAIN calls[0].result.value
    /\ calls[0].result.value.return_value = "50.0"
    /\ calls[1].pc = "idle" /\ calls[1].outcome = "ExpectedError"
    /\ calls[1].result.text =
          <<"ping", "1", "RuntimeError", "failed", "raise NotImplementedError", "">>

\* The connect() attempt ended in fault(TCPIP_CONNECT_ERROR).
ConnectFaulted == connect_state \in {"fault(start_task)", "fault(probe)"}

\* C17 (as claimed): after a connect() attempt that ended in
\* fault(TCPIP_CONNECT_ERROR) the client is not connected and no
\* listen_for_messages task is reading.
C17_FailedConnectAbandoned ==
    ConnectFaulted =>
        /\ client # "connected"
        /\ \A l \in 1..Len(listeners) : listeners[l] # "reading"

\* C18 (as claimed): when the probe of connect() is answered with an error
\* response, connect() ends normally exactly when the response's
\* exception_name is NotImplementedError, and faults the CSC otherwise.
C18_OnlyNotImplemented ==
    (/\ calls[0].pc = "idle"
     /\ calls[0].outcome = "ExpectedError"
     /\ connect_state \in {"done", "fault(probe)"}) =>
        (connect_state = "done" <=> calls[0].result.text[3] = "NotImplementedError")

----------------------------------------------------------------------------
\* connect() and disconnect() of the CSC with its mock controller (CscSpec)

\* C16: connect() on a connected client raises RuntimeError("Already
\* connected") and leaves the client, the reader tasks, the mock controller,
\* the calls in progress and the lines in flight as they were.
C16_AlreadyConnected ==
    [][(connect /\ client = "connected") =>
          /\ api' = [op |-> "connect", on |-> "connected", raised |-> "RuntimeError"]
          /\ UNCHANGED <<ctrlVars, client, mock_ctrl, listeners, response_queue, calls,
                         toServer, toClient, nextId, connect_state>>]_vars

C16_Witness ==
    /\ api = [op |-> "connect", on |-> "connected", raised |-> "RuntimeError"]
    /\ client = "connected"
    /\ mock_ctrl # None
    /\ Len(listeners) = 1

\* What run_command itself holds of a call: the line, the position and the
\* outcome, without the observer's mark that the connection was closed under it.
InProgress(call) == [call EXCEPT !.cut = FALSE]

\* C19: disconnect() on a client that is not connected (never connected, or
\* disconnected before) raises nothing and changes nothing: the client stays
\* as it was, no reader is started or left reading, the mock controller
\* stays absent, the calls in progress and the queues are untouched.
C19_DisconnectIdempotent ==
    [][(disconnect /\ client # "connected") =>
          /\ api'.raised = ""
          /\ mock_ctrl = None /\ mock_ctrl' = None
          /\ \A l \in 1..Len(listeners') : listeners'[l] # "reading"
          /\ \A c \in Callers : InProgress(calls'[c]) = InProgress(calls[c])
          /\ UNCHANGED <<ctrlVars, client, listeners, response_queue,
                         toServer, toClient, nextId, connect_state>>]_vars

C19_Witness ==
    /\ api = [op |-> "disconnect", on |-> "closed", raised |-> ""]
    /\ client = "closed"
    /\ mock_ctrl = None
    /\ listeners = <<>>
    /\ closed

----------------------------------------------------------------------------
\* The first pass of a monitor_status loop (Spec)

\* Loop i took its first pass in this step.
FirstPass(i) ==
    /\ i \in 1..Len(monitors)
    /\ Len(monitors') = Len(monitors)
    /\ monitors[i].vent_state = NoneArray
    /\ monitors'[i] # monitors[i]

\* C20: the first pass of a monitor_status loop writes one
\* evt_vent_gate_state, one evt_extraction_fan_drive_state and one
\* evt_extraction_fan_drive_fault_code, in this order and before anything
\* else, carrying the device's current values (on a new controller: all
\* gates CLOSED, STOPPED, fault code 22); a later pass writes an event only
\* for a value that differs from the one the loop wrote last.
C20_FirstTickEvents ==
    [][\A i \in 1..Len(monitors) :
          /\ FirstPass(i) =>
                /\ Len(sent') >= 3
                /\ sent'[1] = Message("evt_vent_gate_state", 0, "", "", vent_states)
                /\ sent'[2] = Message("evt_extraction_fan_drive_state", 0, "", "", STOPPED)
                /\ sent'[3] = Message("evt_extraction_fan_drive_fault_code", 0, "", "",
                                      InitialFaultCode)
                /\ \A k \in 4..Len(sent') : sent'[k].command = "telemetry"
          /\ (Len(monitors') = Len(monitors) /\ monitors[i].vent_state # NoneArray
              /\ monitors'[i] # monitors[i]) =>
                /\ monitors[i].vent_state # vent_states
                /\ \A k \in 1..Len(sent') :
                      sent'[k].command \in {"evt_vent_gate_state", "telemetry"}]_vars

\* The first pass of a loop has just written the three events of a new
\* controller, and the telemetry line.
C20_Witness ==
    /\ Len(sent) = 4
    /\ sent[1] = Message("evt_vent_gate_state", 0, "", "", [g \in Gates |-> CLOSED])
    /\ sent[2].command = "evt_extraction_fan_drive_state" /\ sent[2].data = STOPPED
    /\ sent[3].command = "evt_extraction_fan_drive_fault_code" /\ sent[3].data = 22
    /\ sent[4].command = "telemetry"
    /\ Len(monitors) = 1 /\ monitors[1].vent_state = vent_states

----------------------------------------------------------------------------
\* The reader tasks of the CSC (CscSpec)

\* The listen_for_messages tasks that are waiting in client.read_str().
Reading == {l \in 1..Len(listeners) : listeners[l] = "reading"}

\* C22: at every moment at most one listen_for_messages task is reading from
\* the client, whatever the order of connect and disconnect calls, a
\* disconnect and reconnect inside a push-message handler included.
C22_OneReader == Cardinality(Reading) <= 1

----------------------------------------------------------------------------
\* The boundaries of a connection (CscSpec)

\* C21: the first line the controller writes on a new connection is a banner
\* line, and the first line the client reads on it is discarded: it goes to
\* no handler and no response queue.
C21_BannerFirst ==
    /\ conn.wrote \in {"", "banner"}
    /\ conn.read \in {"", "discarded"}

\* C30: a command line written on the newest connection is never answered
\* with a response to a command line of an earlier connection.
C30_NoCarryOver ==
    \A c \in Callers :
        (Answered(c) /\ calls[c].id >= conn.firstId) => calls[c].got >= conn.firstId

----------------------------------------------------------------------------
\* Events and telemetry of monitor_status (WatchSpec)

\* The `kind` lines among msgs.
Events(msgs, kind) == SelectSeq(msgs, LAMBDA e : e.command = kind)

\* The line of an event, if the value differs from the loop's snapshot of it.
EventIf(differs, kind, value) ==
    IF differs THEN <<Message(kind, 0, "", "", value)>> ELSE <<>>

C24_TelemetryCadence ==
    [][((\E i \in 1..Len(monitors) : monitor_status(i)) /\ connected /\ sinceTel >= 0) =>
          (HasTelemetry(sent') <=> sinceTel + 1 = TELEMETRY_INTERVAL)]_vars

----------------------------------------------------------------------------
\* Routing of the lines read by listen_for_messages

\* Listener l goes from its read into a handler in this step.
EntersHandler(l) ==
    /\ l \in 1..Len(listeners)
    /\ Len(listeners') = Len(listeners)
    /\ listeners[l] = "reading"
    /\ listeners'[l] = "handling"

\* Listener l comes back from a handler to its read in this step.
LeavesHandler(l) ==
    /\ l \in 1..Len(listeners)
    /\ Len(listeners') = Len(listeners)
    /\ listeners[l] = "handling"
    /\ listeners'[l] = "reading"

IsPush(command) ==
    command \in {"telemetry", "evt_vent_gate_state", "evt_extraction_fan_drive_state",
                 "evt_extraction_fan_drive_fault_code", "evt_unregistered"}

\* C26 (RouteSpec): no message whose command is "telemetry" or begins with
\* "evt_" is ever in a response queue.
C26_PushNeverQueued ==
    \A n \in DOMAIN response_queue :
        \A k \in 1..Len(response_queue[n]) : ~IsPush(response_queue[n][k].msg.command)

----------------------------------------------------------------------------
\* The gate commands and their transition tasks (DispatchSpec)

\* The pending _set_vent_state tasks of gate g.
PendingOf(g) == {k \in 1..Len(transitions) : transitions[k].gate = g}

\* C27: at every moment each gate has at most one pending transition task,
\* hence there are at most 4 pending tasks in all.
C27_OneTaskPerGate ==
    /\ \A g \in Gates : Cardinality(PendingOf(g)) <= 1
    /\ Len(transitions) <= NumGates

\* The last step dispatched a gate command with four integer arguments, one
\* of which is neither -1 nor a gate number.
InvalidGate ==
    /\ RightArity
    /\ IsGateCommand(LastCommand)
    /\ LET conv == ConvertArgs(dispatch_dict[LastCommand], LastArgs)
       IN /\ conv.exc = ""
          /\ \E i \in 1..Len(conv.values) : conv.values[i] \notin Gates \cup {-1}

\* C28: a gate command with a gate argument that is neither -1 nor in 0..3
\* is answered with error=1 and exception_name "ValueError".
C28_InvalidGateValueError ==
    InvalidGate =>
        /\ Len(sent) = 1
        /\ sent[1].error = 1
        /\ sent[1].exception_name = "ValueError"

\* C29: a step that answers a gate command with error=1 schedules no
\* transition and changes no gate.
C29_ErrorHasNoEffect ==
    [][(/\ Len(sent') = 1
        /\ sent'[1].error = 1
        /\ IsGateCommand(sent'[1].command)) => UNCHANGED <<vent_states, transitions>>]_vars

----------------------------------------------------------------------------
\* The tasks of the mock controller across connections and close (Spec)

\* C31: at most one monitor_status loop is alive on the controller at any
\* time, a reconnection within the sleep of the old loop included.
C31_OneMonitorLoop == Len(monitors) <= 1

\* C32: once close() has run, no step changes vent_states.
C32_ClosedIsFinal == [][closed => vent_states' = vent_states]_vars

----------------------------------------------------------------------------
\* The fields each handler writes (FrameSpec)

\* The command lines a client sends to the controller under FrameSpec: every
\* command of dispatch_dict, the gate commands on one gate and on two.
FrameLines ==
    {<<"ping">>, <<"start_extraction_fan">>, <<"stop_extraction_fan">>,
     <<"reset_extraction_fan_drive">>,
     <<"set_extraction_fan_drive_freq", "12.5">>,
     <<"set_extraction_fan_manual_control_mode", "False">>,
     <<"set_extraction_fan_manual_control_mode", "True">>,
     <<"open_vent_gate", "0", "1", "-1", "-1">>,
     <<"close_vent_gate", "0", "-1", "-1", "-1">>}

FrameCommand ==
    \E data \in FrameLines :
        read_and_dispatch(data)
        /\ UNCHANGED <<obsVars, cscVars, fanVars, watchVars, connVars>>

FrameMonitor ==
    \E i \in 1..MaxLoops :
        monitor_status(i)
        /\ UNCHANGED <<obsVars, cscVars, fanVars, watchVars, connVars>>

\* One client's session: the fields written do not depend on reconnections.
FrameNext == Connect \/ FrameCommand \/ Settle \/ FrameMonitor

FrameSpec == Init /\ [][FrameNext]_vars

\* C33: each fan command writes only fan_frequency (50.0, 0.0, the argument),
\* the mode command only manual_control_mode, the reset only the was-reset
\* flag, ping nothing; a gate command touches only the gates it names (the
\* tasks it creates are for those gates, with the command's target), and a
\* settling transition only its own gate; a pass of monitor_status leaves
\* fan_frequency, vent_states, manual_control_mode, fault_codes and
\* fan_drive_state as they were.
C33_Frame ==
    [][/\ \A data \in FrameLines :
             read_and_dispatch(data) =>
                LET command == data[1]
                    named == Addressed(ConvertArgs(dispatch_dict[command], Tail(data)).values)
                    created == SubSeq(transitions', Len(transitions) + 1, Len(transitions'))
                IN
                CASE command = "start_extraction_fan" ->
                        /\ fan_frequency' = "50.0"
                        /\ UNCHANGED <<vent_states, manual_control_mode, fault_codes,
                                       fan_drive_state, extraction_fan_drive_was_reset,
                                       transitions>>
                  [] command = "stop_extraction_fan" ->
                        /\ fan_frequency' = "0.0"
                        /\ UNCHANGED <<vent_states, manual_control_mode, fault_codes,
                                       fan_drive_state, extraction_fan_drive_was_reset,
                                       transitions>>
                  [] command = "set_extraction_fan_drive_freq" ->
                        /\ fan_frequency' = FloatValue[data[2]]
                        /\ UNCHANGED <<vent_states, manual_control_mode, fault_codes,
                                       fan_drive_state, extraction_fan_drive_was_reset,
                                       transitions>>
                  [] command = "set_extraction_fan_manual_control_mode" ->
                        /\ manual_control_mode' = BoolValue[data[2]]
                        /\ UNCHANGED <<fan_frequency, vent_states, fault_codes,
                                       fan_drive_state, extraction_fan_drive_was_reset,
                                       transitions>>
                  [] command = "reset_extraction_fan_drive" ->
                        /\ extraction_fan_drive_was_reset' = TRUE
                        /\ UNCHANGED <<fan_frequency, vent_states, manual_control_mode,
                                       fault_codes, fan_drive_state, transitions>>
                  [] command = "ping" -> UNCHANGED <<device, transitions>>
                  [] IsGateCommand(command) ->
                        /\ UNCHANGED <<fan_frequency, manual_control_mode, fault_codes,
                                       fan_drive_state, extraction_fan_drive_was_reset>>
                        /\ SubSeq(transitions', 1, Len(transitions)) = transitions
                        /\ \A k \in 1..Len(created) :
                              /\ created[k].gate \in named
                              /\ created[k].state = GateTarget(command)
                        /\ \A g \in Gates :
                              vent_states'[g] # vent_states[g] => g \in named
       /\ _set_vent_state =>
             /\ \A g \in Gates :
                   vent_states'[g] # vent_states[g] => g = Head(transitions).gate
             /\ UNCHANGED <<fan_frequency, manual_control_mode, fault_codes,
                            fan_drive_state, extraction_fan_drive_was_reset>>
       /\ \A i \in 1..MaxLoops :
             monitor_status(i) =>
                UNCHANGED <<fan_frequency, vent_states, manual_control_mode,
                            fault_codes, fan_drive_state>>]_vars

\* Every kind of command has acted, a gate has settled and a loop has looked.
C33_Witness ==
    /\ connected
    /\ fan_frequency = "12.5"
    /\ manual_control_mode = FALSE
    /\ extraction_fan_drive_was_reset
    /\ vent_states[0] = CLOSED /\ vent_states[1] = OPENED
    /\ \E i \in 1..Len(monitors) : monitors[i].vent_state = vent_states

====
